---- MODULE Spec2Model ----
(***************************************************************************)
(* Model of github_sync_skript.py: the append Logger, the EnvLoader        *)
(* (KEY=VALUE parser with lookup), the GitSync orchestrator (pull, add,    *)
(* commit, push and the fail-fast sync) and the entry point main().        *)
(*                                                                         *)
(* A text (Python str) is a sequence of one-character strings.  A Python   *)
(* dict is a function whose domain is the set of its keys.  An optional    *)
(* value (str | None) is the empty sequence for None and a one-element     *)
(* sequence holding the value otherwise.                                   *)
(***************************************************************************)
EXTENDS Integers, Sequences, FiniteSets, TLC

\* ------------------------------------------------------------------ bounds

\* Longest config file, in lines, drawn from ConfigLines.
MaxLines == 2
\* Longest raw value of a generated "K=<value>" line.
MaxValLen == 3
\* Most load_env_file calls one loader receives in the EnvLoader harness.
MaxLoads == 2
\* Most sync() calls made on one GitSync.
MaxSyncs == 2
\* Most changes made to the working tree between two sync() calls.
MaxEdits == 1
\* Most write_to_log_file calls a caller of the Logger makes.
MaxWrites == 2

\* ------------------------------------------------------ Python str methods

\* The characters str.strip() removes when called without argument.
Whitespace == {" ", "\t", "\n", "\r"}

UpperCase == <<"A","B","C","D","E","F","G","H","I","J","K","L","M",
               "N","O","P","Q","R","S","T","U","V","W","X","Y","Z">>

LowerCase == <<"a","b","c","d","e","f","g","h","i","j","k","l","m",
               "n","o","p","q","r","s","t","u","v","w","x","y","z">>

\* str.lower() on one character.
LowerChar(c) ==
  IF \E i \in 1..Len(UpperCase) : UpperCase[i] = c
  THEN LowerCase[CHOOSE i \in 1..Len(UpperCase) : UpperCase[i] = c]
  ELSE c

\* str.lower()
Lower(s) == [i \in 1..Len(s) |-> LowerChar(s[i])]

RECURSIVE LStripChars(_, _)
\* str.lstrip(chars): drop leading characters while they are in chars.
LStripChars(s, chars) ==
  IF s = <<>> \/ Head(s) \notin chars THEN s ELSE LStripChars(Tail(s), chars)

RECURSIVE RStripChars(_, _)
\* str.rstrip(chars): drop trailing characters while they are in chars.
RStripChars(s, chars) ==
  IF s = <<>> \/ s[Len(s)] \notin chars THEN s
  ELSE RStripChars(SubSeq(s, 1, Len(s) - 1), chars)

\* str.strip(chars): every leading and every trailing character in chars.
StripChars(s, chars) == RStripChars(LStripChars(s, chars), chars)

\* str.strip()
Strip(s) == StripChars(s, Whitespace)

\* str.startswith(prefix)
StartsWith(s, prefix) ==
  Len(prefix) <= Len(s) /\ SubSeq(s, 1, Len(prefix)) = prefix

\* "sub in s"
Contains(s, sub) ==
  \E i \in 1..(Len(s) - Len(sub) + 1) : SubSeq(s, i, i + Len(sub) - 1) = sub

RECURSIVE IndexOf(_, _, _)
\* str.find(c) from position i on, 1-based; 0 when c does not occur.
IndexOf(s, c, i) ==
  IF i > Len(s) THEN 0 ELSE IF s[i] = c THEN i ELSE IndexOf(s, c, i + 1)

RECURSIVE LastIndexOf(_, _, _)
\* str.rfind(c) up to position i, 1-based; 0 when c does not occur.
LastIndexOf(s, c, i) ==
  IF i = 0 THEN 0 ELSE IF s[i] = c THEN i ELSE LastIndexOf(s, c, i - 1)

\* str.rsplit(sep, 1): the split at the last occurrence instead.
SplitOnceAtLast(s, sep) ==
  LET i == LastIndexOf(s, sep, Len(s))
  IN  <<SubSeq(s, 1, i - 1), SubSeq(s, i + 1, Len(s))>>

\* str.split(sep, 1) of a text that contains sep: the parts before and after
\* the first occurrence.
SplitOnce(s, sep) ==
  LET i == IndexOf(s, sep, 1)
  IN  <<SubSeq(s, 1, i - 1), SubSeq(s, i + 1, Len(s))>>

\* ------------------------------------------------------------ Python dict

EmptyDict == [k \in {} |-> <<>>]

\* d[k] = v
DictSet(d, k, v) == [x \in (DOMAIN d) \cup {k} |-> IF x = k THEN v ELSE d[x]]

\* d.get(k, default), with None as <<>> and a value v as <<v>>.
DictGet(d, k, default) == IF k \in DOMAIN d THEN <<d[k]>> ELSE default

None == <<>>

Some(v) == <<v>>

\* ------------------------------------------------------------------ Logger

\* datetime.now().strftime('%Y-%m-%d %H:%M:%S'): the local clock's readings.
Timestamps == {<<"2","0","2","5","-","0","1","-","1","9"," ","1","4",":","3","0",":","1","5">>, <<"2","0","2","5","-","0","1","-","1","9"," ","1","4",":","3","0",":","1","6">>}

\* The f-string of write_to_log_file.
log_entry(message, headline, timestamp) ==
  <<"=","=","=","=","="," ">> \o headline \o <<" ","=","=","=","=","="," ","\n">> \o timestamp \o <<" ","-"," ">> \o message \o <<"\n","\n">>

\* The write with the file opened in mode 'w' in place of 'a'.
write_to_log_file_truncating(content, message, headline, timestamp) ==
  log_entry(message, headline, timestamp)

\* Logger.write_to_log_file: the file's content after open(..., 'a') and
\* f.write(log_entry).
write_to_log_file(content, message, headline, timestamp) ==
  content \o log_entry(message, headline, timestamp)

\* --------------------------------------------------------------- EnvLoader

\* The condition under which load_env_file stores a (stripped) line.
line_is_entry(line) ==
  line # <<>> /\ ~StartsWith(line, <<"#">>) /\ Contains(line, <<"=">>)

\* The value cleaning with the two quote strips in the other order.
clean_value_single_first(value) == StripChars(StripChars(Strip(value), {"'"}), {"\""})

\* value.strip().strip('"').strip("'")
clean_value(value) == StripChars(StripChars(Strip(value), {"\""}), {"'"})

\* The body of the for loop of load_env_file for one raw line.
parse_line(vars, raw) ==
  LET line == Strip(raw)
  IN  IF line_is_entry(line)
      THEN LET kv == SplitOnce(line, "=")
           IN  DictSet(vars, Strip(kv[1]), clean_value(kv[2]))
      ELSE vars

RECURSIVE parse_lines_fresh(_, _, _)
\* The for loop preceded by a reset of the mapping (self._env_vars = {}).
parse_lines_fresh(vars, lines, n) ==
  IF n = 0 THEN EmptyDict
  ELSE parse_line(parse_lines_fresh(vars, lines, n - 1), lines[n])

RECURSIVE parse_lines(_, _, _)
\* The for loop of load_env_file over the first n lines the file yields.
parse_lines(vars, lines, n) ==
  IF n = 0 THEN vars
  ELSE parse_line(parse_lines(vars, lines, n - 1), lines[n])

\* What reading may do: deliver every line, or raise after `good` lines
\* (good = 0 also covers open() raising).
ReadOutcomes(lines) ==
  {[raised |-> FALSE, good |-> Len(lines), exc |-> <<>>]}
  \cup [raised : {TRUE}, good : 0..Len(lines), exc : {<<"'","u","t","f","-","8","'"," ","c","o","d","e","c"," ","c","a","n","'","t"," ","d","e","c","o","d","e"," ","b","y","t","e">>}]

\* load_env_file resetting the mapping when the file does not exist.
load_env_file_clearing(vars, files, env_path, content, timestamp, read) ==
  IF env_path \notin DOMAIN files
  THEN [ret |-> FALSE, vars |-> EmptyDict,
        log |-> write_to_log_file(content,
                  <<".","e","n","v","-","D","a","t","e","i"," ","n","i","c","h","t"," ","g","e","f","u","n","d","e","n"," ","u","n","t","e","r",":"," ">> \o env_path,
                  <<"E","n","v","L","o","a","d","e","r"," ","W","a","r","n","i","n","g">>, timestamp),
        out |-> <<[kind |-> "warning", op |-> "load_env_file", text |-> env_path]>>]
  ELSE IF read.raised
  THEN [ret |-> FALSE, vars |-> parse_lines(vars, files[env_path], read.good),
        log |-> write_to_log_file(content,
                  <<"F","E","H","L","E","R"," ","b","e","i","m"," ","L","e","s","e","n"," ","d","e","r"," ",".","e","n","v","-","D","a","t","e","i",":","\n">> \o read.exc,
                  <<"E","n","v","L","o","a","d","e","r"," ","E","r","r","o","r">>, timestamp),
        out |-> <<[kind |-> "failure", op |-> "load_env_file", text |-> read.exc]>>]
  ELSE [ret |-> TRUE,
        vars |-> parse_lines(vars, files[env_path], Len(files[env_path])),
        log |-> content, out |-> <<>>]

\* EnvLoader.load_env_file.  files maps each existing path to its lines;
\* the result holds the return value, the mapping, the log file's content
\* and the console lines printed.
load_env_file(vars, files, env_path, content, timestamp, read) ==
  IF env_path \notin DOMAIN files
  THEN [ret |-> FALSE, vars |-> vars,
        log |-> write_to_log_file(content,
                  <<".","e","n","v","-","D","a","t","e","i"," ","n","i","c","h","t"," ","g","e","f","u","n","d","e","n"," ","u","n","t","e","r",":"," ">> \o env_path,
                  <<"E","n","v","L","o","a","d","e","r"," ","W","a","r","n","i","n","g">>, timestamp),
        out |-> <<[kind |-> "warning", op |-> "load_env_file", text |-> env_path]>>]
  ELSE IF read.raised
  THEN [ret |-> FALSE, vars |-> parse_lines(vars, files[env_path], read.good),
        log |-> write_to_log_file(content,
                  <<"F","E","H","L","E","R"," ","b","e","i","m"," ","L","e","s","e","n"," ","d","e","r"," ",".","e","n","v","-","D","a","t","e","i",":","\n">> \o read.exc,
                  <<"E","n","v","L","o","a","d","e","r"," ","E","r","r","o","r">>, timestamp),
        out |-> <<[kind |-> "failure", op |-> "load_env_file", text |-> read.exc]>>]
  ELSE [ret |-> TRUE,
        vars |-> parse_lines(vars, files[env_path], Len(files[env_path])),
        log |-> content, out |-> <<>>]

\* EnvLoader.get_var
get_var(vars, key, default) == DictGet(vars, key, default)

\* ----------------------------------------------------------------- GitSync

\* Path(repo_path): pathlib turns the empty string into the current
\* directory.
Path(repo_path) == IF repo_path = <<>> THEN <<".">> ELSE repo_path

\* A constructor that accepts every path.
path_exists_unchecked(paths, repo_path) == TRUE

\* GitSync.__init__: whether construction succeeds (no ValueError).
path_exists(paths, repo_path) == Path(repo_path) \in paths

\* The texts the external git binary writes to a stream.
GitTexts ==
  { <<>>,
    <<"A","l","r","e","a","d","y"," ","u","p"," ","t","o"," ","d","a","t","e",".","\n">>,
    <<"n","o","t","h","i","n","g"," ","t","o"," ","c","o","m","m","i","t",","," ","w","o","r","k","i","n","g"," ","t","r","e","e"," ","c","l","e","a","n","\n">>,
    <<"O","n"," ","b","r","a","n","c","h"," ","m","a","i","n","\n","N","o","t","h","i","n","g"," ","T","o"," ","C","o","m","m","i","t","\n">>,
    <<"n","o","t","h","i","n","g"," ","a","d","d","e","d"," ","t","o"," ","c","o","m","m","i","t"," ","b","u","t"," ","u","n","t","r","a","c","k","e","d"," ","f","i","l","e","s"," ","p","r","e","s","e","n","t","\n">> }

\* The (stdout, stderr) pairs of a process that ran: one stream carries a
\* text, the other is empty.
StreamPairs ==
  {<<t, <<>> >> : t \in GitTexts} \cup {<< <<>>, t>> : t \in GitTexts}

\* The exit codes of a process that ran.
ReturnCodes == {0, 1}

\* str(e) of the exceptions subprocess.run raises when the process cannot be
\* launched.
LaunchErrors == {<<"[","E","r","r","n","o"," ","2","]"," ","N","o"," ","s","u","c","h"," ","f","i","l","e"," ","o","r"," ","d","i","r","e","c","t","o","r","y",":"," ","'","g","i","t","'">>}

\* Every way one subprocess.run call can end: the process ran and exited
\* with returncode, stdout and stderr, or subprocess.run raised.
ProcessOutcomes ==
  {[raised |-> FALSE, returncode |-> c, stdout |-> p[1], stderr |-> p[2], exc |-> <<>>] :
     c \in ReturnCodes, p \in StreamPairs}
  \cup
  {[raised |-> TRUE, returncode |-> 0, stdout |-> <<>>, stderr |-> <<>>, exc |-> e] :
     e \in LaunchErrors}

\* _run_git_command with an except branch that drops str(e).
run_git_command_dropping_error(proc) ==
  IF proc.raised
  THEN [success |-> FALSE, output |-> <<>>, error |-> <<>>]
  ELSE [success |-> proc.returncode = 0, output |-> proc.stdout, error |-> proc.stderr]

\* GitSync._run_git_command: the (success, stdout, stderr) tuple.
run_git_command(proc) ==
  IF proc.raised
  THEN [success |-> FALSE, output |-> <<>>, error |-> proc.exc]
  ELSE [success |-> proc.returncode = 0, output |-> proc.stdout, error |-> proc.stderr]

\* The headline every GitSync primitive logs under.
GitSyncHeadline == <<"G","i","t","S","y","n","c"," ","E","r","r","o","r">>

\* The phrase commit() looks for.
NothingToCommit == <<"n","o","t","h","i","n","g"," ","t","o"," ","c","o","m","m","i","t">>

\* The argument vectors of the four primitives.
PullCommand == <<<<"g","i","t">>, <<"p","u","l","l">>>>

AddCommand == <<<<"g","i","t">>, <<"a","d","d">>, <<".">>>>

CommitCommand(message) == <<<<"g","i","t">>, <<"c","o","m","m","i","t">>, <<"-","m">>, message>>

PushCommand == <<<<"g","i","t">>, <<"p","u","s","h">>>>

\* The failure branch logging error.strip() in place of the full text.
primitive_failed_logging_stripped(op, prefix, r, content, timestamp) ==
  [ret |-> FALSE,
   log |-> write_to_log_file(content, prefix \o Strip(r.error), GitSyncHeadline, timestamp),
   out |-> <<[kind |-> "progress", op |-> op, text |-> <<>>],
             [kind |-> "failure", op |-> op, text |-> Strip(r.error)]>>]

\* The failure branch shared by the four primitives: the red console line
\* with error.strip(), the log entry with the full error, return False.
primitive_failed(op, prefix, r, content, timestamp) ==
  [ret |-> FALSE,
   log |-> write_to_log_file(content, prefix \o r.error, GitSyncHeadline, timestamp),
   out |-> <<[kind |-> "progress", op |-> op, text |-> <<>>],
             [kind |-> "failure", op |-> op, text |-> Strip(r.error)]>>]

\* The success branch: the green console line, return True.
primitive_succeeded(op, kind, text, content) ==
  [ret |-> TRUE, log |-> content,
   out |-> <<[kind |-> "progress", op |-> op, text |-> <<>>],
             [kind |-> kind, op |-> op, text |-> text]>>]

\* GitSync.pull, given the result r of its git command.
pull(r, content, timestamp) ==
  IF r.success
  THEN primitive_succeeded("pull", "success", Strip(r.output), content)
  ELSE primitive_failed("pull", <<"G","i","t"," ","P","u","l","l"," ","F","e","h","l","e","r",":","\n">>, r, content, timestamp)

\* GitSync.add_all
add_all(r, content, timestamp) ==
  IF r.success
  THEN primitive_succeeded("add_all", "success", <<>>, content)
  ELSE primitive_failed("add_all", <<"G","i","t"," ","A","d","d"," ","F","e","h","l","e","r",":","\n">>, r, content, timestamp)

\* The no-op test of commit() without the lower() calls.
nothing_to_commit_case_sensitive(r) ==
  Contains(r.output, NothingToCommit) \/ Contains(r.error, NothingToCommit)

\* The elif of commit(): the no-op case.
nothing_to_commit(r) ==
  Contains(Lower(r.output), NothingToCommit) \/ Contains(Lower(r.error), NothingToCommit)

\* commit() writing a log entry in the no-op case too.
commit_logging_noop(r, content, timestamp) ==
  IF r.success
  THEN primitive_succeeded("commit", "success", Strip(r.output), content)
  ELSE IF nothing_to_commit(r)
  THEN [ret |-> TRUE,
        log |-> write_to_log_file(content, <<"G","i","t"," ","C","o","m","m","i","t"," ","F","e","h","l","e","r",":","\n">> \o r.error,
                                  GitSyncHeadline, timestamp),
        out |-> <<[kind |-> "progress", op |-> "commit", text |-> <<>>],
                  [kind |-> "warning", op |-> "commit", text |-> <<>>]>>]
  ELSE primitive_failed("commit", <<"G","i","t"," ","C","o","m","m","i","t"," ","F","e","h","l","e","r",":","\n">>, r, content, timestamp)

\* commit() without the elif for "nothing to commit".
commit_without_noop_case(r, content, timestamp) ==
  IF r.success
  THEN primitive_succeeded("commit", "success", Strip(r.output), content)
  ELSE primitive_failed("commit", <<"G","i","t"," ","C","o","m","m","i","t"," ","F","e","h","l","e","r",":","\n">>, r, content, timestamp)

\* GitSync.commit
commit(r, content, timestamp) ==
  IF r.success
  THEN primitive_succeeded("commit", "success", Strip(r.output), content)
  ELSE IF nothing_to_commit(r)
  THEN primitive_succeeded("commit", "warning", <<>>, content)
  ELSE primitive_failed("commit", <<"G","i","t"," ","C","o","m","m","i","t"," ","F","e","h","l","e","r",":","\n">>, r, content, timestamp)

\* push() with commit's no-op case copied into it.
push_with_noop_case(r, content, timestamp) ==
  IF r.success
  THEN primitive_succeeded("push", "success", Strip(r.output), content)
  ELSE IF nothing_to_commit(r)
  THEN primitive_succeeded("push", "warning", <<>>, content)
  ELSE primitive_failed("push", <<"G","i","t"," ","P","u","s","h"," ","F","e","h","l","e","r",":","\n">>, r, content, timestamp)

\* GitSync.push
push(r, content, timestamp) ==
  IF r.success
  THEN primitive_succeeded("push", "success", Strip(r.output), content)
  ELSE primitive_failed("push", <<"G","i","t"," ","P","u","s","h"," ","F","e","h","l","e","r",":","\n">>, r, content, timestamp)

\* The primitive sync() is at, applied to the result of its command.
primitive(step, r, content, timestamp) ==
  CASE step = "pull" -> pull(r, content, timestamp)
    [] step = "add_all" -> add_all(r, content, timestamp)
    [] step = "commit" -> commit(r, content, timestamp)
    [] step = "push" -> push(r, content, timestamp)

\* The command the primitive runs.
command_of(step, message) ==
  CASE step = "pull" -> PullCommand
    [] step = "add_all" -> AddCommand
    [] step = "commit" -> CommitCommand(message)
    [] step = "push" -> PushCommand

\* sync() without its early return after a failed add_all.
sync_next_ignoring_failure(step, ret) ==
  CASE step = "pull" -> IF ret THEN "add_all" ELSE "return_false"
    [] step = "add_all" -> "commit"
    [] step = "commit" -> IF ret THEN "push" ELSE "return_false"
    [] step = "push" -> IF ret THEN "return_true" ELSE "return_false"

\* sync() with the commit step placed before the add step.
sync_next_reordered(step, ret) ==
  IF ~ret THEN "return_false"
  ELSE CASE step = "pull" -> "commit"
         [] step = "commit" -> "add_all"
         [] step = "add_all" -> "push"
         [] step = "push" -> "return_true"

\* sync(): where control goes after the primitive at `step` returned ret.
\* "return_false" and "return_true" are sync's two return statements.
sync_next(step, ret) ==
  IF ~ret THEN "return_false"
  ELSE CASE step = "pull" -> "add_all"
         [] step = "add_all" -> "commit"
         [] step = "commit" -> "push"
         [] step = "push" -> "return_true"

\* What sync() prints after the primitive at `step` returned ret.
sync_lines(step, ret) ==
  IF ~ret THEN <<[kind |-> "abort", op |-> step, text |-> <<>>]>>
  ELSE IF step = "push" THEN <<[kind |-> "banner", op |-> "sync_done", text |-> <<>>]>>
  ELSE <<>>

\* -------------------------------------------------------------------- main

\* The config path and the required key of main().
EnvPath == <<".","e","n","v">>

RepoKey == <<"R","E","P","O","_","P","F","A","D","_","L","I","N">>

\* The check with "if not repo_path", which also rejects the empty text.
key_missing_or_empty(value) == value = None \/ value = Some(<<>>)

\* main(): "repo_path is None", on the value get_var returned.
key_missing(value) == value = None

\* The commit message main() builds.
main_message(timestamp) == <<"A","u","t","o","m","a","t","i","s","c","h","e","r"," ","S","y","n","c"," ","v","o","m"," ">> \o timestamp

\* The process exit status: a pending exception (SystemExit(1) from
\* sys.exit(1), the ValueError of GitSync.__init__, or the EOFError input()
\* raises in the finally block when stdin is at end of file) makes it 1.
exit_status(pending, eof) == IF pending # "none" \/ eof THEN 1 ELSE 0

\* ------------------------------------------------------------------- state

VARIABLES
  files,          \* the filesystem's text files: path -> sequence of raw lines
  paths,          \* the filesystem paths that exist (Path.exists)
  log_file,       \* content of error.log
  console,        \* the lines printed so far
  env_vars,       \* EnvLoader._env_vars
  n_loads,        \* load_env_file calls made so far
  load_path,      \* argument of the latest load_env_file call, None before
  load_ret,       \* return value of the latest load_env_file call
  last_read,      \* how the read of the latest recorded load_env_file call ended
  get_args,       \* (key, default) of the latest get_var call
  get_ret,        \* return value of the latest get_var call
  repo_path,      \* GitSync._repo_path once constructed, None before
  commit_message, \* the argument of sync()
  calls,          \* the argument vectors subprocess.run was invoked with
  exits,          \* the exit code of each invocation, None where the launch failed
  proc,           \* how the latest external invocation ended
  result,         \* the tuple _run_git_command returned for it
  prim_rets,      \* return values of the primitives sync() has called
  sync_ret,       \* return value of sync(), None while it has not returned
  pending,        \* the exception propagating out of main(), "none" if none
  exit_code,      \* the process exit status once pc = "exited"
  pc,             \* position of the program
  tree,           \* the repository's working tree: "dirty" or "clean"
  edits,          \* changes made to the working tree since the latest sync() returned
  history,        \* one record per earlier sync() call on the same GitSync
  writes,         \* the write_to_log_file calls a caller of the Logger made
  child           \* the external process in flight: "none", "running", "hung"

vars == <<files, paths, log_file, console, env_vars, n_loads, load_path, load_ret,
          get_args, get_ret, repo_path, commit_message, calls, exits, proc, result,
          prim_rets, sync_ret, pending, exit_code, pc, last_read, tree, edits,
          history, writes, child>>

loader_vars == <<env_vars, n_loads, load_path, load_ret, last_read, get_args, get_ret>>

\* What only the repository, Logger and blocking specifications change.
world_vars == <<tree, edits, history, writes, child>>

sync_vars == <<repo_path, commit_message, calls, exits, proc, result, prim_rets, sync_ret>>

\* ------------------------------------------------------------------ inputs

\* The log file before the program starts: absent/empty, or holding an
\* entry of an earlier run.
PriorLogs == {<<>>, log_entry(<<"o","l","d">>, <<"E","r","r","o","r">>, <<"2","0","2","5","-","0","1","-","1","8"," ","0","9",":","0","0",":","0","0">>)}

\* Config lines the files of the loader harness are built from.
ConfigLines ==
  { <<"A","=","1","\n">>, <<" ","A"," ","="," ","2"," ","\n">>, <<"C","=","3","=","4","\n">>, <<"n","o","e","q","u","a","l","s","\n">>, <<" "," ","#","A","=","9","\n">>, <<"=","x","\n">> }

\* The five-line file of the specification's example.
ExampleFile == << <<"A","=","1","\n">>, <<"#"," ","c","o","m","m","e","n","t","\n">>, <<"B","=","\"","t","w","o","\"","\n">>, <<" ","\n">>, <<"C","=","3","=","4","\n">> >>

\* The characters generated values are made of.
ValueAlphabet == {"\"", "'", "a", " "}

RECURSIVE SeqsUpTo(_, _)
\* All sequences over S of length at most n.
SeqsUpTo(S, n) ==
  IF n = 0 THEN {<<>>}
  ELSE LET shorter == SeqsUpTo(S, n - 1)
       IN  shorter \cup {Append(s, x) : s \in {t \in shorter : Len(t) = n - 1}, x \in S}

\* The files of the loader harness.
LoaderFiles ==
  SeqsUpTo(ConfigLines, MaxLines)
  \cup {ExampleFile}
  \cup {<<<<"K","=">> \o v \o <<"\n">>>> : v \in SeqsUpTo(ValueAlphabet, MaxValLen)}

\* A path no file exists at.
MissingPath == <<"m","i","s","s","i","n","g",".","e","n","v">>

\* The keys and defaults get_var is called with.
Keys == {<<"A">>, <<"K">>}

Defaults == {None, Some(<<"f","a","l","l","b","a","c","k">>)}

\* The config files of the whole-program runs.
MainFiles ==
  { <<<<"R","E","P","O","_","P","F","A","D","_","L","I","N","=","/","r","e","p","o","\n">>>>,
    <<<<"#"," ","s","y","n","c","\n">>, <<"R","E","P","O","_","P","F","A","D","_","L","I","N"," ","="," ","\"","/","r","e","p","o","\"","\n">>>>,
    <<<<"R","E","P","O","_","P","F","A","D","_","L","I","N","=","/","g","o","n","e","\n">>>>,
    <<<<"A","=","1","\n">>>>,
    <<<<"R","E","P","O","_","P","F","A","D","_","L","I","N","=","\n">>>>,
    <<<<"R","E","P","O","_","P","F","A","D","_","L","I","N"," ","="," "," ","\n">>>>,
    <<<<"R","E","P","O","_","P","F","A","D","_","L","I","N","=","\"","\"","\n">>>>,
    <<<<"R","E","P","O","_","P","F","A","D","_","L","I","N","=","'","\n">>>> }

\* The paths that exist: the current directory and the repository.
MainPaths == {<<".">>, <<"/","r","e","p","o">>}

\* The existing paths that hold a git repository.
Repositories == {<<"/","r","e","p","o">>}

\* -------------------------------------------------------------------- Init

NoProc == [raised |-> FALSE, returncode |-> 0, stdout |-> <<>>, stderr |-> <<>>, exc |-> <<>>]

NoResult == [success |-> FALSE, output |-> <<>>, error |-> <<>>]

InitCommon ==
  /\ console = <<>>
  /\ env_vars = EmptyDict
  /\ n_loads = 0
  /\ load_path = None
  /\ load_ret = None
  /\ last_read = None
  /\ get_args = None
  /\ get_ret = None
  /\ repo_path = None
  /\ commit_message = <<>>
  /\ calls = <<>>
  /\ exits = <<>>
  /\ proc = NoProc
  /\ result = NoResult
  /\ prim_rets = <<>>
  /\ sync_ret = None
  /\ pending = "none"
  /\ exit_code = 0
  /\ tree = "clean"
  /\ edits = 0
  /\ history = <<>>
  /\ writes = <<>>
  /\ child = "none"

\* The program is started: main() is about to run.
Init ==
  /\ InitCommon
  /\ files \in {EmptyDict} \cup {(EnvPath :> f) : f \in MainFiles}
  /\ paths = MainPaths
  /\ log_file \in PriorLogs
  /\ pc = "main_load"

\* A fresh EnvLoader whose methods a caller is about to use.
InitLoader ==
  /\ InitCommon
  /\ files \in {EmptyDict} \cup {(EnvPath :> f) : f \in LoaderFiles}
  /\ paths = MainPaths
  /\ log_file = <<>>
  /\ pc = "loader"

\* --------------------------------------------------------------- EnvLoader

\* The effect of one load_env_file(env_path) call on the state.
DoLoad(env_path, l) ==
  /\ env_vars' = l.vars
  /\ log_file' = l.log
  /\ console' = console \o l.out
  /\ n_loads' = n_loads + 1
  /\ load_path' = Some(env_path)
  /\ load_ret' = Some(l.ret)

LinesAt(env_path) == IF env_path \in DOMAIN files THEN files[env_path] ELSE <<>>

\* A caller invokes EnvLoader.load_env_file(env_path).
LoadCall ==
  /\ pc = "loader"
  /\ n_loads < MaxLoads
  /\ \E env_path \in {EnvPath, MissingPath}, timestamp \in Timestamps :
       \E read \in ReadOutcomes(LinesAt(env_path)) :
         DoLoad(env_path, load_env_file(env_vars, files, env_path, log_file, timestamp, read))
  /\ UNCHANGED <<files, paths, last_read, get_args, get_ret, pending, exit_code, pc>>
  /\ UNCHANGED sync_vars
  /\ UNCHANGED world_vars

\* A caller invokes EnvLoader.get_var(key, default).
GetVarCall ==
  /\ pc = "loader"
  /\ \E key \in Keys, default \in Defaults :
       /\ get_args' = Some(<<key, default>>)
       /\ get_ret' = Some(get_var(env_vars, key, default))
  /\ UNCHANGED <<files, paths, log_file, console, env_vars, n_loads, load_path, load_ret,
                 last_read, pending, exit_code, pc>>
  /\ UNCHANGED sync_vars
  /\ UNCHANGED world_vars

\* -------------------------------------------------------------------- main

\* main(): env.load_env_file('.env') and the exit when it fails.
MainLoad ==
  /\ pc = "main_load"
  /\ \E timestamp \in Timestamps, read \in ReadOutcomes(LinesAt(EnvPath)) :
       LET l == load_env_file(env_vars, files, EnvPath, log_file, timestamp, read)
       IN  /\ env_vars' = l.vars
           /\ log_file' = l.log
           /\ n_loads' = n_loads + 1
           /\ load_path' = Some(EnvPath)
           /\ load_ret' = Some(l.ret)
           /\ IF l.ret
              THEN /\ console' = console \o l.out
                   /\ pending' = pending
                   /\ pc' = "main_get_var"
              ELSE /\ console' = console \o l.out \o
                        <<[kind |-> "failure", op |-> "main_load", text |-> <<>>]>>
                   /\ pending' = "SystemExit"
                   /\ pc' = "finally"
  /\ UNCHANGED <<files, paths, last_read, get_args, get_ret, exit_code>>
  /\ UNCHANGED sync_vars
  /\ UNCHANGED world_vars

\* main(): env.get_var('REPO_PFAD_LIN') and the exit when it is None.
MainGetVar ==
  /\ pc = "main_get_var"
  /\ get_args' = Some(<<RepoKey, None>>)
  /\ get_ret' = Some(get_var(env_vars, RepoKey, None))
  /\ IF key_missing(get_var(env_vars, RepoKey, None))
     THEN /\ console' = Append(console, [kind |-> "failure", op |-> "main_get_var", text |-> <<>>])
          /\ pending' = "SystemExit"
          /\ pc' = "finally"
     ELSE /\ console' = console
          /\ pending' = pending
          /\ pc' = "main_construct"
  /\ UNCHANGED <<files, paths, log_file, env_vars, n_loads, load_path, load_ret, last_read,
                 exit_code>>
  /\ UNCHANGED sync_vars
  /\ UNCHANGED world_vars

\* main(): GitSync(repo_path), which raises ValueError when the path does
\* not exist, then the call of sync(message) up to its first primitive.
MainConstruct ==
  /\ pc = "main_construct"
  /\ LET path == get_ret[1][1]
     IN  IF path_exists(paths, path)
         THEN \E timestamp \in Timestamps :
                /\ repo_path' = Some(Path(path))
                /\ commit_message' = main_message(timestamp)
                /\ console' = Append(console, [kind |-> "banner", op |-> "sync_start", text |-> <<>>])
                /\ pending' = pending
                /\ pc' = "pull"
         ELSE /\ pending' = "ValueError"
              /\ pc' = "finally"
              /\ UNCHANGED <<repo_path, commit_message, console>>
  /\ UNCHANGED <<files, paths, log_file, exit_code, calls, exits, proc, result, prim_rets,
                 sync_ret>>
  /\ UNCHANGED loader_vars
  /\ UNCHANGED world_vars

\* sync(): the primitive at `step` runs its git command and handles the
\* result; sync() goes on to the next primitive or returns.
SyncStep(step) ==
  /\ pc = step
  /\ \E outcome \in ProcessOutcomes, timestamp \in Timestamps :
       LET r == run_git_command(outcome)
           p == primitive(step, r, log_file, timestamp)
           next == sync_next(step, p.ret)
       IN  /\ calls' = Append(calls, command_of(step, commit_message))
           /\ exits' = Append(exits, IF outcome.raised THEN None ELSE Some(outcome.returncode))
           /\ proc' = outcome
           /\ result' = r
           /\ log_file' = p.log
           /\ prim_rets' = Append(prim_rets, p.ret)
           /\ console' = console \o p.out \o sync_lines(step, p.ret)
           /\ IF next = "return_true" \/ next = "return_false"
              THEN /\ sync_ret' = Some(next = "return_true")
                   /\ pc' = "main_result"
              ELSE /\ sync_ret' = sync_ret
                   /\ pc' = next
  /\ UNCHANGED <<files, paths, repo_path, commit_message, pending, exit_code>>
  /\ UNCHANGED loader_vars
  /\ UNCHANGED world_vars

SyncPull == SyncStep("pull")

SyncAddAll == SyncStep("add_all")

SyncCommit == SyncStep("commit")

SyncPush == SyncStep("push")

\* main(): the branch on sync()'s return value.
MainResult ==
  /\ pc = "main_result"
  /\ IF sync_ret = Some(TRUE)
     THEN /\ console' = Append(console, [kind |-> "success", op |-> "main", text |-> <<>>])
          /\ pending' = pending
     ELSE /\ console' = Append(console, [kind |-> "failure", op |-> "main", text |-> <<>>])
          /\ pending' = "SystemExit"
  /\ pc' = "finally"
  /\ UNCHANGED <<files, paths, log_file, exit_code>>
  /\ UNCHANGED loader_vars
  /\ UNCHANGED sync_vars
  /\ UNCHANGED world_vars

\* The finally block of the script: input() waits for Enter, and raises
\* EOFError when stdin is at end of file; then the process exits.
Finally ==
  /\ pc = "finally"
  /\ \E eof \in BOOLEAN : exit_code' = exit_status(pending, eof)
  /\ pc' = "exited"
  /\ UNCHANGED <<files, paths, log_file, console, pending>>
  /\ UNCHANGED loader_vars
  /\ UNCHANGED sync_vars
  /\ UNCHANGED world_vars

\* ---------------------------------------------------------- specifications

Next ==
  \/ MainLoad
  \/ MainGetVar
  \/ MainConstruct
  \/ SyncPull
  \/ SyncAddAll
  \/ SyncCommit
  \/ SyncPush
  \/ MainResult
  \/ Finally

\* One run of the script.
Spec == Init /\ [][Next]_vars

NextLoader == LoadCall \/ GetVarCall

\* One EnvLoader used through its two methods.
SpecLoader == InitLoader /\ [][NextLoader]_vars

\* ------------------------------------------- sync() twice on one repository

\* The process ran and exited with code c, text on stdout and err on stderr.
Exited(c, text, err) ==
  [raised |-> FALSE, returncode |-> c, stdout |-> text, stderr |-> err, exc |-> <<>>]

\* subprocess.run raised: the binary could not be launched.
LaunchFailures ==
  {[raised |-> TRUE, returncode |-> 0, stdout |-> <<>>, stderr |-> <<>>, exc |-> e] :
     e \in LaunchErrors}

\* What git does for the command of `step` in a repository whose working
\* tree is `tree`.  git commit on a clean tree exits with 1 and reports
\* "nothing to commit" on stdout or stderr; on a tree with changes (staged by
\* the add before it) it records them and exits with 0, or fails for another
\* reason.  Pull, add and push succeed or fail whatever the tree is.
git_outcomes(step, t) ==
  LaunchFailures \cup
  CASE step = "pull" ->
         {Exited(0, <<"A","l","r","e","a","d","y"," ","u","p"," ","t","o"," ","d","a","t","e",".","\n">>, <<>>),
          Exited(1, <<>>, <<"f","a","t","a","l",":"," ","u","n","a","b","l","e"," ","t","o"," ","a","c","c","e","s","s"," ","r","e","m","o","t","e","\n">>)}
    [] step = "add_all" ->
         {Exited(0, <<>>, <<>>), Exited(1, <<>>, <<"f","a","t","a","l",":"," ","U","n","a","b","l","e"," ","t","o"," ","c","r","e","a","t","e"," ","i","n","d","e","x",".","l","o","c","k","\n">>)}
    [] step = "commit" /\ t = "clean" ->
         {Exited(1, <<"n","o","t","h","i","n","g"," ","t","o"," ","c","o","m","m","i","t",","," ","w","o","r","k","i","n","g"," ","t","r","e","e"," ","c","l","e","a","n","\n">>, <<>>),
          Exited(1, <<>>, <<"O","n"," ","b","r","a","n","c","h"," ","m","a","i","n","\n","N","o","t","h","i","n","g"," ","T","o"," ","C","o","m","m","i","t","\n">>)}
    [] step = "commit" /\ t = "dirty" ->
         {Exited(0, <<"1"," ","f","i","l","e"," ","c","h","a","n","g","e","d","\n">>, <<>>),
          Exited(1, <<>>, <<"A","u","t","h","o","r"," ","i","d","e","n","t","i","t","y"," ","u","n","k","n","o","w","n","\n">>)}
    [] step = "push" ->
         {Exited(0, <<>>, <<"E","v","e","r","y","t","h","i","n","g"," ","u","p","-","t","o","-","d","a","t","e","\n">>),
          Exited(1, <<>>, <<"f","a","t","a","l",":"," ","u","n","a","b","l","e"," ","t","o"," ","a","c","c","e","s","s"," ","r","e","m","o","t","e","\n">>)}

\* The working tree after the command: a commit that exited with 0 has
\* recorded every change.
git_tree_after(step, t, outcome) ==
  IF step = "commit" /\ ~outcome.raised /\ outcome.returncode = 0 THEN "clean" ELSE t

\* A GitSync for the existing repository, about to run sync(message).
InitRepo ==
  /\ files = EmptyDict
  /\ paths = MainPaths
  /\ log_file = <<>>
  /\ env_vars = EmptyDict
  /\ n_loads = 0
  /\ load_path = None
  /\ load_ret = None
  /\ last_read = None
  /\ get_args = None
  /\ get_ret = None
  /\ repo_path = Some(<<"/","r","e","p","o">>)
  /\ \E timestamp \in Timestamps : commit_message = main_message(timestamp)
  /\ console = <<[kind |-> "banner", op |-> "sync_start", text |-> <<>>]>>
  /\ calls = <<>>
  /\ exits = <<>>
  /\ proc = NoProc
  /\ result = NoResult
  /\ prim_rets = <<>>
  /\ sync_ret = None
  /\ pending = "none"
  /\ exit_code = 0
  /\ tree \in {"clean", "dirty"}
  /\ edits = 0
  /\ history = <<>>
  /\ writes = <<>>
  /\ child = "none"
  /\ pc = "pull"

\* sync() on the repository: the primitive at `step` runs its git command,
\* git answers as the working tree makes it, and sync() goes on or returns.
RepoStep(step) ==
  /\ pc = step
  /\ \E outcome \in git_outcomes(step, tree), timestamp \in Timestamps :
       LET r == run_git_command(outcome)
           p == primitive(step, r, log_file, timestamp)
           next == sync_next(step, p.ret)
       IN  /\ calls' = Append(calls, command_of(step, commit_message))
           /\ exits' = Append(exits, IF outcome.raised THEN None ELSE Some(outcome.returncode))
           /\ proc' = outcome
           /\ result' = r
           /\ log_file' = p.log
           /\ prim_rets' = Append(prim_rets, p.ret)
           /\ console' = console \o p.out \o sync_lines(step, p.ret)
           /\ tree' = git_tree_after(step, tree, outcome)
           /\ IF next = "return_true" \/ next = "return_false"
              THEN /\ sync_ret' = Some(next = "return_true")
                   /\ pc' = "returned"
              ELSE /\ sync_ret' = sync_ret
                   /\ pc' = next
  /\ UNCHANGED <<files, paths, repo_path, commit_message, pending, exit_code>>
  /\ UNCHANGED <<edits, history, writes, child>>
  /\ UNCHANGED loader_vars

RepoPull == RepoStep("pull")

RepoAddAll == RepoStep("add_all")

RepoCommit == RepoStep("commit")

RepoPush == RepoStep("push")

\* After sync() has returned files of the working tree are changed.
Edit ==
  /\ pc = "returned"
  /\ edits < MaxEdits
  /\ tree' = "dirty"
  /\ edits' = edits + 1
  /\ UNCHANGED <<files, paths, log_file, console, pending, exit_code, pc, history, writes,
                 child>>
  /\ UNCHANGED loader_vars
  /\ UNCHANGED sync_vars

\* The caller runs sync(message) again on the same GitSync; what the call
\* before did, and how often the working tree was changed since it
\* returned, is kept in history.
SyncAgain ==
  /\ pc = "returned"
  /\ Len(history) + 1 < MaxSyncs
  /\ history' = Append(history, [ret |-> sync_ret[1], edits |-> edits, calls |-> calls,
                                 exits |-> exits, prim_rets |-> prim_rets])
  /\ \E timestamp \in Timestamps : commit_message' = main_message(timestamp)
  /\ calls' = <<>>
  /\ exits' = <<>>
  /\ prim_rets' = <<>>
  /\ proc' = NoProc
  /\ result' = NoResult
  /\ sync_ret' = None
  /\ console' = Append(console, [kind |-> "banner", op |-> "sync_start", text |-> <<>>])
  /\ edits' = 0
  /\ pc' = "pull"
  /\ UNCHANGED <<files, paths, log_file, repo_path, pending, exit_code, tree, writes, child>>
  /\ UNCHANGED loader_vars

NextRepo ==
  \/ RepoPull
  \/ RepoAddAll
  \/ RepoCommit
  \/ RepoPush
  \/ Edit
  \/ SyncAgain

\* One GitSync whose sync() is called up to MaxSyncs times.
SpecRepo == InitRepo /\ [][NextRepo]_vars

\* ------------------------------------------------------- the Logger alone

\* The log file before the first write: absent or empty, holding an entry of
\* an earlier run, or holding text that does not end in a line break.
LoggerPriors == PriorLogs \cup {<<"x">>}

\* The messages and headlines write_to_log_file is called with; "Error" is
\* the headline a call without one gets.
LogMessages == {<<>>, <<"T","e","s","t">>, <<"G","i","t"," ","P","u","l","l"," ","F","e","h","l","e","r",":","\n","f","a","t","a","l","\n">>}

LogHeadlines == {<<"E","r","r","o","r">>, <<"W","a","r","n","i","n","g">>}

\* A Logger whose write_to_log_file a caller is about to use.
InitLogger ==
  /\ InitCommon
  /\ files = EmptyDict
  /\ paths = MainPaths
  /\ log_file \in LoggerPriors
  /\ pc = "logger"

\* A caller invokes Logger.write_to_log_file(message, headline).
WriteCall ==
  /\ pc = "logger"
  /\ Len(writes) < MaxWrites
  /\ \E message \in LogMessages, headline \in LogHeadlines, timestamp \in Timestamps :
       /\ log_file' = write_to_log_file(log_file, message, headline, timestamp)
       /\ writes' = Append(writes, [message |-> message, headline |-> headline,
                                    timestamp |-> timestamp])
  /\ UNCHANGED <<files, paths, console, pending, exit_code, pc, tree, edits, history, child>>
  /\ UNCHANGED loader_vars
  /\ UNCHANGED sync_vars

NextLogger == WriteCall

\* One Logger used through write_to_log_file.
SpecLogger == InitLogger /\ [][NextLogger]_vars

\* ------------------------------------------------ sync() and its processes

\* subprocess.run with a timeout: a process that does not exit is given up
\* and the call raises.
wait_outcomes_with_timeout(c) ==
  IF c = "running" THEN ProcessOutcomes
  ELSE {[raised |-> TRUE, returncode |-> 0, stdout |-> <<>>, stderr |-> <<>>,
         exc |-> <<"t","i","m","e","d"," ","o","u","t">>]}

\* The ways subprocess.run(...) can come back to its caller while the
\* process is in state c: with the outcome of a process that exits (or that
\* could not be launched), and not at all while the process does not exit;
\* the call passes no timeout.
wait_outcomes(c) == IF c = "running" THEN ProcessOutcomes ELSE {}

\* A GitSync for the existing repository, about to run sync(message).
InitBlocking == InitRepo /\ tree = "clean"

\* The primitive at `step` calls subprocess.run: the process is started and
\* either will exit or never does.
Launch(step) ==
  /\ pc = step
  /\ child = "none"
  /\ calls' = Append(calls, command_of(step, commit_message))
  /\ child' \in {"running", "hung"}
  /\ UNCHANGED <<files, paths, log_file, console, pending, exit_code, pc, tree, edits, history,
                 writes>>
  /\ UNCHANGED <<repo_path, commit_message, exits, proc, result, prim_rets, sync_ret>>
  /\ UNCHANGED loader_vars

\* subprocess.run comes back; the primitive handles the result and sync()
\* goes on to the next primitive or returns.
Finish(step) ==
  /\ pc = step
  /\ child # "none"
  /\ \E outcome \in wait_outcomes(child), timestamp \in Timestamps :
       LET r == run_git_command(outcome)
           p == primitive(step, r, log_file, timestamp)
           next == sync_next(step, p.ret)
       IN  /\ exits' = Append(exits, IF outcome.raised THEN None ELSE Some(outcome.returncode))
           /\ proc' = outcome
           /\ result' = r
           /\ log_file' = p.log
           /\ prim_rets' = Append(prim_rets, p.ret)
           /\ console' = console \o p.out \o sync_lines(step, p.ret)
           /\ IF next = "return_true" \/ next = "return_false"
              THEN /\ sync_ret' = Some(next = "return_true")
                   /\ pc' = "returned"
              ELSE /\ sync_ret' = sync_ret
                   /\ pc' = next
  /\ child' = "none"
  /\ UNCHANGED <<files, paths, repo_path, commit_message, calls, pending, exit_code>>
  /\ UNCHANGED <<tree, edits, history, writes>>
  /\ UNCHANGED loader_vars

LaunchPull == Launch("pull")

LaunchAddAll == Launch("add_all")

LaunchCommit == Launch("commit")

LaunchPush == Launch("push")

FinishPull == Finish("pull")

FinishAddAll == Finish("add_all")

FinishCommit == Finish("commit")

FinishPush == Finish("push")

NextBlocking ==
  \/ LaunchPull
  \/ FinishPull
  \/ LaunchAddAll
  \/ FinishAddAll
  \/ LaunchCommit
  \/ FinishCommit
  \/ LaunchPush
  \/ FinishPush

\* One sync() call with its external processes.  The program is sequential
\* and a process that exits does so after finite time, so a step that can be
\* taken is taken eventually.
SpecBlocking == InitBlocking /\ [][NextBlocking]_vars /\ WF_vars(NextBlocking)

\* --------------------------------------- one EnvLoader loading several files

\* A second config file path.
LocalPath == <<".","e","n","v",".","l","o","c","a","l">>

\* The lines the first file is built from, and the second file.
ReloadLines == { <<"A","=","1","\n">>, <<" ","A"," ","="," ","2"," ","\n">>, <<"C","=","3","=","4","\n">>, <<"n","o","e","q","u","a","l","s","\n">> }

LocalFiles == { <<<<"A","=","3","\n">>>>, <<<<"B","=","1","\n">>, <<"A","=","\n">>>> }

\* A fresh EnvLoader and two config files.
InitReload ==
  /\ InitCommon
  /\ \E f \in SeqsUpTo(ReloadLines, MaxLines), g \in LocalFiles :
       files = (EnvPath :> f) @@ (LocalPath :> g)
  /\ paths = MainPaths
  /\ log_file = <<>>
  /\ pc = "loader"

\* A caller invokes EnvLoader.load_env_file(env_path); how the read ended
\* is recorded.
ReloadCall ==
  /\ pc = "loader"
  /\ n_loads < MaxLoads
  /\ \E env_path \in {EnvPath, LocalPath, MissingPath}, timestamp \in Timestamps :
       \E read \in ReadOutcomes(LinesAt(env_path)) :
         /\ DoLoad(env_path, load_env_file(env_vars, files, env_path, log_file, timestamp, read))
         /\ last_read' = Some(read)
  /\ UNCHANGED <<files, paths, get_args, get_ret, pending, exit_code, pc>>
  /\ UNCHANGED sync_vars
  /\ UNCHANGED world_vars

NextReload == ReloadCall

\* One EnvLoader that loads files one after another.
SpecReload == InitReload /\ [][NextReload]_vars

\* ------------------------------------------------------------------ claims

\* The primitives of sync() in the order of its source.
StepOrder == <<"pull", "add_all", "commit", "push">>

\* The commands of a complete sync(message).
SyncCommands(message) ==
  <<PullCommand, AddCommand, CommitCommand(message), PushCommand>>

Last(s) == s[Len(s)]

EndsWith(s, suffix) ==
  Len(suffix) <= Len(s) /\ SubSeq(s, Len(s) - Len(suffix) + 1, Len(s)) = suffix

\* C1 (fail-fast): the commands invoked so far are always a prefix of
\* pull, add, commit(message), push, one per primitive that has returned; a
\* primitive that reported failure is the last one invoked, and sync() has
\* returned failure at that point, so no later command is ever invoked.
C1_FailFast ==
  /\ Len(calls) <= 4
  /\ calls = SubSeq(SyncCommands(commit_message), 1, Len(calls))
  /\ Len(prim_rets) = Len(calls)
  /\ \A i \in 1..Len(prim_rets) :
       ~prim_rets[i] => i = Len(calls) /\ sync_ret = Some(FALSE)

\* add_all was the first primitive to fail and the program has ended.
C1_Witness ==
  pc = "exited" /\ prim_rets = <<TRUE, FALSE>> /\ Len(calls) = 2 /\ sync_ret = Some(FALSE)

\* C2: once sync(message) has returned from a run in which every external
\* invocation exited with code 0, exactly pull, add, commit(message), push
\* were invoked, in that order, and sync returned success.
C2_AllZeroRunsAllFour ==
  (sync_ret # None /\ \A i \in 1..Len(exits) : exits[i] = Some(0))
    => /\ calls = SyncCommands(commit_message)
       /\ sync_ret = Some(TRUE)

\* sync() has returned after four invocations that all exited with 0.
C2_Witness ==
  /\ sync_ret = Some(TRUE)
  /\ exits = <<Some(0), Some(0), Some(0), Some(0)>>
  /\ commit_message = main_message(<<"2","0","2","5","-","0","1","-","1","9"," ","1","4",":","3","0",":","1","5">>)

\* The upper-case form of a lower-case letter, the character itself otherwise.
UpperOf(c) ==
  IF \E i \in 1..Len(LowerCase) : LowerCase[i] = c
  THEN UpperCase[CHOOSE i \in 1..Len(LowerCase) : LowerCase[i] = c]
  ELSE c

\* The text holds "nothing to commit" at some position, each letter in
\* either case.
HasPhraseAnyCase(text) ==
  \E i \in 1..(Len(text) - Len(NothingToCommit) + 1) :
    \A j \in 1..Len(NothingToCommit) :
      text[i + j - 1] \in {NothingToCommit[j], UpperOf(NothingToCommit[j])}

\* C3: in the step in which commit's process exits non-zero, if stdout or
\* stderr holds the phrase "nothing to commit" in any letter case then
\* commit returns True, sync has not returned and stands before push, and the
\* log file is unchanged; without the phrase in either stream commit returns
\* False.  The step taken from the push position invokes git push.
C3_NothingToCommit ==
  [][ /\ (pc = "commit" /\ ~proc'.raised /\ proc'.returncode # 0) =>
           IF HasPhraseAnyCase(proc'.stdout) \/ HasPhraseAnyCase(proc'.stderr)
           THEN /\ prim_rets' = Append(prim_rets, TRUE)
                /\ sync_ret' = None
                /\ pc' = "push"
                /\ log_file' = log_file
           ELSE /\ prim_rets' = Append(prim_rets, FALSE)
                /\ log_file' # log_file
      /\ pc = "push" => calls' = Append(calls, PushCommand)
    ]_vars

\* Commit exited with 1 and "Nothing To Commit" on stderr, and push was
\* invoked afterwards.
C3_Witness ==
  /\ Len(calls) = 4
  /\ exits[3] = Some(1)
  /\ prim_rets[3] = TRUE
  /\ \E i \in 1..Len(console) : console[i].kind = "warning" /\ console[i].op = "commit"

\* What the log message of a failing primitive starts with.
ErrorPrefix(step) ==
  CASE step = "pull" -> <<"G","i","t"," ","P","u","l","l"," ","F","e","h","l","e","r",":","\n">>
    [] step = "add_all" -> <<"G","i","t"," ","A","d","d"," ","F","e","h","l","e","r",":","\n">>
    [] step = "commit" -> <<"G","i","t"," ","C","o","m","m","i","t"," ","F","e","h","l","e","r",":","\n">>
    [] step = "push" -> <<"G","i","t"," ","P","u","s","h"," ","F","e","h","l","e","r",":","\n">>

\* The primitive that made the latest invocation.
LastStep == StepOrder[Len(calls)]

\* The latest primitive failed with error text err the way a failure is
\* handled: it returned False, sync returned False, the console shows the
\* failure line with the stripped text and the log file ends with the entry
\* holding the full text.
HandledAsFailure(err) ==
  /\ Last(prim_rets) = FALSE
  /\ sync_ret = Some(FALSE)
  /\ \E i \in 1..Len(console) :
       console[i] = [kind |-> "failure", op |-> LastStep, text |-> Strip(err)]
  /\ \E timestamp \in Timestamps :
       EndsWith(log_file,
                log_entry(ErrorPrefix(LastStep) \o err, GitSyncHeadline, timestamp))

\* C4: every primitive invoked has returned a boolean whatever its
\* invocation did and no exception other than main's own sys.exit is
\* pending; a launch failure yields the result (False, "", str(e)) and is
\* handled as a failure exactly like a non-zero exit (outside commit's no-op
\* case) is.
C4_NoFaultEscapes ==
  /\ Len(prim_rets) = Len(calls)
  /\ \A i \in 1..Len(prim_rets) : prim_rets[i] \in BOOLEAN
  /\ Len(calls) > 0 => pending \in {"none", "SystemExit"}
  /\ (Len(calls) > 0 /\ proc.raised) =>
       /\ result = [success |-> FALSE, output |-> <<>>, error |-> proc.exc]
       /\ HandledAsFailure(proc.exc)
  /\ (/\ Len(calls) > 0
      /\ ~proc.raised
      /\ proc.returncode # 0
      /\ LastStep = "commit" =>
           ~HasPhraseAnyCase(proc.stdout) /\ ~HasPhraseAnyCase(proc.stderr)) =>
       /\ result = [success |-> FALSE, output |-> proc.stdout, error |-> proc.stderr]
       /\ HandledAsFailure(proc.stderr)

\* The git binary could not be launched for the commit, and the program
\* has exited.
C4_Witness ==
  pc = "exited" /\ Len(calls) = 3 /\ proc.raised /\ sync_ret = Some(FALSE)

\* C5: when the process has exited, its exit code is 0 exactly when sync
\* returned success; it is non-zero when the config file could not be
\* loaded, when the repository-path key is absent and when sync failed, and
\* in the two configuration cases no git command was invoked.
C5_ExitCodeReflectsSync ==
  pc = "exited" =>
    /\ (exit_code = 0) <=> (sync_ret = Some(TRUE))
    /\ (load_ret = Some(FALSE) \/ get_ret = Some(None)) =>
         exit_code # 0 /\ calls = <<>>
    /\ sync_ret = Some(FALSE) => exit_code # 0

\* Headlines that name the operation, followed by "Error".
OperationHeadlines(step) ==
  CASE step = "pull" -> {<<"P","u","l","l"," ","E","r","r","o","r">>, <<"G","i","t"," ","P","u","l","l"," ","E","r","r","o","r">>, <<"p","u","l","l"," ","E","r","r","o","r">>}
    [] step = "add_all" -> {<<"S","t","a","g","e","-","a","l","l"," ","E","r","r","o","r">>, <<"A","d","d"," ","E","r","r","o","r">>, <<"G","i","t"," ","A","d","d"," ","E","r","r","o","r">>, <<"a","d","d","_","a","l","l"," ","E","r","r","o","r">>}
    [] step = "commit" -> {<<"C","o","m","m","i","t"," ","E","r","r","o","r">>, <<"G","i","t"," ","C","o","m","m","i","t"," ","E","r","r","o","r">>, <<"c","o","m","m","i","t"," ","E","r","r","o","r">>}
    [] step = "push" -> {<<"P","u","s","h"," ","E","r","r","o","r">>, <<"G","i","t"," ","P","u","s","h"," ","E","r","r","o","r">>, <<"p","u","s","h"," ","E","r","r","o","r">>}

\* C6 as stated: in the step in which a primitive reports failure, one entry
\* is appended to the log whose message holds the full captured standard
\* error text and whose headline is the operation's name followed by "Error".
C6_HeadlineNamesOperation ==
  [][ (pc \in {"pull", "add_all", "commit", "push"} /\ ~Last(prim_rets')) =>
        \E timestamp \in Timestamps, headline \in OperationHeadlines(pc) :
          log_file' = log_file \o log_entry(ErrorPrefix(pc) \o result'.error, headline, timestamp)
    ]_vars

\* C6 as amended: in the step in which a primitive reports failure, exactly
\* one entry is appended to the log; its message is the operation's own
\* prefix ("Git Pull Fehler:", "Git Add Fehler:", "Git Commit Fehler:",
\* "Git Push Fehler:" and a line break) followed by the full captured
\* standard error text, and its headline is "GitSync Error" for all four
\* operations.
C6_FailureLogged ==
  [][ (pc \in {"pull", "add_all", "commit", "push"} /\ ~Last(prim_rets')) =>
        /\ result'.error = (IF proc'.raised THEN proc'.exc ELSE proc'.stderr)
        /\ \E timestamp \in Timestamps :
             log_file' = log_file \o
               log_entry(ErrorPrefix(pc) \o result'.error, <<"G","i","t","S","y","n","c"," ","E","r","r","o","r">>, timestamp)
    ]_vars

\* Push failed with a standard error text that ends in a line break, and
\* the log ends with the entry for it.
C6_Witness ==
  /\ Len(calls) = 4
  /\ Last(prim_rets) = FALSE
  /\ proc.stderr = <<"A","l","r","e","a","d","y"," ","u","p"," ","t","o"," ","d","a","t","e",".","\n">>
  /\ \E timestamp \in Timestamps :
       EndsWith(log_file,
                log_entry(<<"G","i","t"," ","P","u","s","h"," ","F","e","h","l","e","r",":","\n">> \o proc.stderr, <<"G","i","t","S","y","n","c"," ","E","r","r","o","r">>, timestamp))

\* C7: the log file holds what it held when the program started for as long
\* as every primitive called has reported success (commit's no-op case
\* included) and after a sync that returned success; after a sync that
\* returned failure it holds exactly one more entry, the one of the failing
\* primitive.
C7_LogOnlyOnFailure ==
  Len(calls) > 0 =>
    IF \A i \in 1..Len(prim_rets) : prim_rets[i]
    THEN /\ log_file \in PriorLogs
         /\ sync_ret # Some(FALSE)
         /\ sync_ret = Some(TRUE) => Len(prim_rets) = 4
    ELSE /\ sync_ret = Some(FALSE)
         /\ \E prior \in PriorLogs, timestamp \in Timestamps :
              log_file = prior \o
                log_entry(ErrorPrefix(LastStep) \o result.error, GitSyncHeadline, timestamp)

\* A sync that succeeded through commit's no-op case, the log still holding
\* only the entry of an earlier run.
C7_Witness ==
  /\ sync_ret = Some(TRUE)
  /\ exits[3] = Some(1)
  /\ log_file # <<>>
  /\ log_file \in PriorLogs

Min(S) == CHOOSE x \in S : \A y \in S : x <= y

Max(S) == CHOOSE x \in S : \A y \in S : x >= y

\* The part of s from its first to its last character outside chars.
Trimmed(s, chars) ==
  LET keep == {i \in 1..Len(s) : s[i] \notin chars}
  IN  IF keep = {} THEN <<>> ELSE SubSeq(s, Min(keep), Max(keep))

\* The reference parser: a line yields an entry when, trimmed, it is not
\* empty, does not start with '#' and holds an '='.
RefIsEntry(raw) ==
  LET line == Trimmed(raw, Whitespace)
  IN  line # <<>> /\ line[1] # "#" /\ \E i \in 1..Len(line) : line[i] = "="

\* The position of the first '=' of the trimmed line.
RefSplitAt(raw) ==
  LET line == Trimmed(raw, Whitespace)
  IN  Min({i \in 1..Len(line) : line[i] = "="})

\* The key: what precedes the first '=', trimmed.
RefKey(raw) ==
  LET line == Trimmed(raw, Whitespace)
  IN  Trimmed(SubSeq(line, 1, RefSplitAt(raw) - 1), Whitespace)

\* The value: what follows the first '=', trimmed, without the double quotes
\* and then the single quotes at its ends.
RefValue(raw) ==
  LET line == Trimmed(raw, Whitespace)
      value == Trimmed(SubSeq(line, RefSplitAt(raw) + 1, Len(line)), Whitespace)
  IN  Trimmed(Trimmed(value, {"\""}), {"'"})

\* The mapping of the reference parser: the keys of the entry lines, each
\* with the value of the last line that defines it.
RefMapping(lines) ==
  LET entries == {i \in 1..Len(lines) : RefIsEntry(lines[i])}
      keys == {RefKey(lines[i]) : i \in entries}
  IN  [k \in keys |-> RefValue(lines[Max({i \in entries : RefKey(lines[i]) = k})])]

\* C8: after a load that returned success the mapping is exactly the
\* reference parser's for the file's lines; for the file A=1, # comment,
\* B="two", blank, C=3=4 it is {A: "1", B: "two", C: "3=4"}.
C8_LoadIsReferenceParse ==
  load_ret = Some(TRUE) =>
    /\ env_vars = RefMapping(files[EnvPath])
    /\ files[EnvPath] = ExampleFile =>
         env_vars = (<<"A">> :> <<"1">>) @@ (<<"B">> :> <<"t","w","o">>) @@ (<<"C">> :> <<"3","=","4">>)

\* The example file was loaded with success and gave the three entries.
C8_Witness ==
  /\ EnvPath \in DOMAIN files
  /\ files[EnvPath] = ExampleFile
  /\ load_ret = Some(TRUE)
  /\ DOMAIN env_vars = {<<"A">>, <<"B">>, <<"C">>}
  /\ env_vars[<<"C">>] = <<"3","=","4">>

\* The file holds the single line K=<value>.
IsValueFile ==
  /\ EnvPath \in DOMAIN files
  /\ Len(files[EnvPath]) = 1
  /\ StartsWith(files[EnvPath][1], <<"K","=">>)

\* The raw value of that line: what stands between "K=" and the line break.
RawValue == SubSeq(files[EnvPath][1], 3, Len(files[EnvPath][1]) - 1)

\* One layer of quotes removed, and only when both ends carry the same
\* quote character.
OneMatchingLayer(t) ==
  IF Len(t) >= 2 /\ t[1] = t[Len(t)] /\ t[1] \in {"\"", "'"}
  THEN SubSeq(t, 2, Len(t) - 1)
  ELSE t

\* C9 as stated: the value stored for K=<value> is the trimmed value with
\* exactly one layer of matching quotes removed, and unchanged when the
\* quotes at its ends do not match or stand on one side only.
C9_OneMatchingLayerStripped ==
  (IsValueFile /\ load_ret = Some(TRUE)) =>
    env_vars = (<<"K">> :> OneMatchingLayer(Trimmed(RawValue, Whitespace)))

\* C9 as amended: the value stored for K=<value> is the trimmed value
\* without any of the double quotes at its start and end and then without
\* any of the single quotes at the start and end of what remains, whether or
\* not the quotes at the two ends match and however many there are.
C9_AllOuterQuotesStripped ==
  (IsValueFile /\ load_ret = Some(TRUE)) =>
    env_vars = (<<"K">> :> Trimmed(Trimmed(Trimmed(RawValue, Whitespace), {"\""}), {"'"}))

\* The line K="'a was loaded: quotes on one side only, of both kinds, and
\* the value stored is a.
C9_Witness ==
  /\ IsValueFile
  /\ RawValue = <<"\"", "'", "a">>
  /\ load_ret = Some(TRUE)
  /\ env_vars[<<"K">>] = <<"a">>

\* C10: a load_env_file call on a path that does not exist returns False,
\* leaves the mapping as it was (empty on a fresh loader) and appends one
\* entry to the log; a get_var call returns the given default for every key
\* the mapping does not hold, so for every key after such a failed load on
\* a fresh loader, as for a key absent from a file that was loaded.
C10_MissingFileLoad ==
  [][ /\ (n_loads' = n_loads + 1 /\ load_path' = Some(MissingPath)) =>
           /\ load_ret' = Some(FALSE)
           /\ env_vars' = env_vars
           /\ n_loads = 0 => env_vars' = EmptyDict
           /\ \E timestamp \in Timestamps :
                log_file' = log_file \o
                  log_entry(<<".","e","n","v","-","D","a","t","e","i"," ","n","i","c","h","t"," ","g","e","f","u","n","d","e","n"," ","u","n","t","e","r",":"," ">> \o MissingPath,
                            <<"E","n","v","L","o","a","d","e","r"," ","W","a","r","n","i","n","g">>, timestamp)
      /\ (n_loads' = n_loads /\ get_args' # None) =>
           LET key == get_args'[1][1]
               default == get_args'[1][2]
           IN  /\ key \notin DOMAIN env_vars => get_ret' = Some(default)
               /\ (n_loads = 1 /\ load_path = Some(MissingPath)) => get_ret' = Some(default)
    ]_vars

\* A fresh loader was given the missing path although a file defining A
\* exists, and get_var("A", "fallback") then returned "fallback".
C10_Witness ==
  /\ EnvPath \in DOMAIN files
  /\ files[EnvPath] = <<<<"A","=","1","\n">>>>
  /\ n_loads = 1
  /\ load_path = Some(MissingPath)
  /\ load_ret = Some(FALSE)
  /\ env_vars = EmptyDict
  /\ get_args = Some(<<<<"A">>, Some(<<"f","a","l","l","b","a","c","k">>)>>)
  /\ get_ret = Some(Some(<<"f","a","l","l","b","a","c","k">>))

\* C11: the step that constructs GitSync(path) either finds the path
\* missing, and then raises ValueError, produces no instance and leaves the
\* program at its end with no git command invoked, or finds it existing and
\* then produces the instance for it, whether or not the path holds a
\* repository.  A git command is only ever invoked on a constructed
\* instance, whose path exists.
C11_ConstructionChecksExistence ==
  [][ /\ pc = "main_construct" =>
           LET path == Path(get_ret[1][1])
           IN  IF path \in paths
               THEN repo_path' = Some(path) /\ pending' = "none" /\ pc' = "pull"
               ELSE /\ repo_path' = None
                    /\ pending' = "ValueError"
                    /\ pc' = "finally"
                    /\ calls' = <<>>
      /\ calls' # <<>> => repo_path' # None /\ repo_path'[1] \in paths
      /\ pending = "ValueError" => calls' = <<>> /\ repo_path' = None
    ]_vars

\* A program run ended by the ValueError for the missing path /gone, without
\* any git command.
C11_Witness ==
  /\ pc = "exited"
  /\ pending = "ValueError"
  /\ get_ret = Some(Some(<<"/","g","o","n","e">>))
  /\ repo_path = None
  /\ calls = <<>>
  /\ exit_code = 1

\* Git was invoked in the current directory, which exists and holds no
\* repository.
ConstructedOutsideRepository ==
  repo_path = Some(<<".">>) /\ <<".">> \notin Repositories /\ Len(calls) > 0

\* Config files that define the repository-path key with an empty value:
\* nothing after '=', only whitespace, only quotes.
EmptyValueFiles ==
  { <<<<"R","E","P","O","_","P","F","A","D","_","L","I","N","=","\n">>>>,
    <<<<"R","E","P","O","_","P","F","A","D","_","L","I","N"," ","="," "," ","\n">>>>,
    <<<<"R","E","P","O","_","P","F","A","D","_","L","I","N","=","\"","\"","\n">>>>,
    <<<<"R","E","P","O","_","P","F","A","D","_","L","I","N","=","'","\n">>>> }

\* C17: the step of main() that looks the repository-path key up ends the
\* program (sys.exit) exactly when the key is absent from the mapping; a key
\* present with the empty value, as loaded from a line with nothing, only
\* whitespace or only quotes after '=', passes, and the next step constructs
\* GitSync with the empty path, which succeeds and lets sync() start.
C17_OnlyAbsentKeyIsMissing ==
  [][ /\ (load_ret = Some(TRUE) /\ files[EnvPath] \in EmptyValueFiles) =>
           env_vars = (RepoKey :> <<>>)
      /\ pc = "main_get_var" =>
           IF RepoKey \in DOMAIN env_vars
           THEN /\ get_ret' = Some(Some(env_vars[RepoKey]))
                /\ pending' = "none"
                /\ pc' = "main_construct"
           ELSE /\ get_ret' = Some(None)
                /\ pending' = "SystemExit"
                /\ pc' = "finally"
      /\ (pc = "main_construct" /\ get_ret = Some(Some(<<>>))) =>
           /\ repo_path' = Some(Path(<<>>))
           /\ pending' = "none"
           /\ pc' = "pull"
    ]_vars

\* The key was loaded from the line REPO_PFAD_LIN="" with the empty value,
\* the program did not exit at the missing-key step, and git pull was
\* invoked by the GitSync constructed with the empty path.
C17_Witness ==
  /\ EnvPath \in DOMAIN files
  /\ files[EnvPath] = <<<<"R","E","P","O","_","P","F","A","D","_","L","I","N","=","\"","\"","\n">>>>
  /\ env_vars = (RepoKey :> <<>>)
  /\ get_ret = Some(Some(<<>>))
  /\ repo_path = Some(Path(<<>>))
  /\ Len(calls) > 0
  /\ calls[1] = PullCommand

\* C14: in the step in which pull, add_all or push runs its command, the
\* primitive returns True exactly when the process ran and exited with code
\* 0, whatever stdout and stderr hold; so a non-zero exit gives False also
\* when a stream holds "nothing to commit", and so does a launch failure.
C14_SuccessIsExitCodeZero ==
  [][ (pc \in {"pull", "add_all", "push"}) =>
        /\ result'.success = (~proc'.raised /\ proc'.returncode = 0)
        /\ Last(prim_rets') = (~proc'.raised /\ proc'.returncode = 0)
        /\ ~Last(prim_rets') => sync_ret' = Some(FALSE)
    ]_vars

\* Push exited with 1 and "nothing to commit, working tree clean" on
\* stdout, and reported failure.
C14_Witness ==
  /\ Len(calls) = 4
  /\ exits[4] = Some(1)
  /\ proc.stdout = <<"n","o","t","h","i","n","g"," ","t","o"," ","c","o","m","m","i","t",","," ","w","o","r","k","i","n","g"," ","t","r","e","e"," ","c","l","e","a","n","\n">>
  /\ Last(prim_rets) = FALSE
  /\ sync_ret = Some(FALSE)

\* The mapping d with the entries of e added, e's value winning for a key
\* both hold.
Overlay(d, e) ==
  [k \in (DOMAIN d) \cup (DOMAIN e) |-> IF k \in DOMAIN e THEN e[k] ELSE d[k]]

\* C16: a load_env_file call never removes a key: the mapping after it is
\* the mapping before it overlaid with the reference parser's entries for
\* the lines that were read, so every key holds the value of the most recent
\* line that defined it.  A call whose read raised after some lines returns
\* False and still keeps the entries of those lines; a call on a missing
\* path leaves the mapping as it was.
C16_LoadOnlyAdds ==
  [][ (n_loads' = n_loads + 1) =>
        LET env_path == load_path'[1]
            read == last_read'[1]
        IN  /\ DOMAIN env_vars \subseteq DOMAIN env_vars'
            /\ env_path \notin DOMAIN files => env_vars' = env_vars
            /\ env_path \in DOMAIN files =>
                 /\ read.good <= Len(files[env_path])
                 /\ env_vars' = Overlay(env_vars,
                                        RefMapping(SubSeq(files[env_path], 1, read.good)))
                 /\ load_ret' = Some(~read.raised)
                 /\ ~read.raised => read.good = Len(files[env_path])
    ]_vars

\* After .env (A=1, C=3=4) was loaded, the load of .env.local (B=1, A=)
\* raised after its first line and returned False; the mapping holds A and
\* C from the first file and B from the line read before the error.
C16_Witness ==
  /\ files[EnvPath] = <<<<"A","=","1","\n">>, <<"C","=","3","=","4","\n">>>>
  /\ files[LocalPath] = <<<<"B","=","1","\n">>, <<"A","=","\n">>>>
  /\ n_loads = 2
  /\ load_path = Some(LocalPath)
  /\ load_ret = Some(FALSE)
  /\ last_read # None
  /\ last_read[1].raised
  /\ last_read[1].good = 1
  /\ env_vars = (<<"A">> :> <<"1">>) @@ (<<"B">> :> <<"1">>) @@ (<<"C">> :> <<"3","=","4">>)

\* The invocations of the current sync() call other than the commit ran and
\* exited with 0, and the commit was launched.
OthersExitedZero ==
  /\ \A i \in 1..Len(exits) : i # 3 => exits[i] = Some(0)
  /\ Len(exits) >= 3 => exits[3] # None

SecondCommitAlwaysNoop ==
  (Len(history) >= 1 /\ Last(history).ret /\ Len(exits) >= 3) => exits[3] # Some(0)

\* A line of text with its line break.
Line(text) == Append(text, "\n")

\* The block of one write: the headline banner line, the line with the
\* timestamp and the message, and an empty line.
Block(w) ==
  Line(<<"=","=","=","=","="," ">> \o w.headline \o <<" ","=","=","=","=","="," ">>)
    \o Line(w.timestamp \o <<" ","-"," ">> \o w.message)
    \o Line(<<>>)

RECURSIVE Blocks(_)
\* The blocks of a sequence of writes, in call order.
Blocks(ws) ==
  IF ws = <<>> THEN <<>> ELSE Blocks(SubSeq(ws, 1, Len(ws) - 1)) \o Block(Last(ws))

\* C13: after any sequence of write_to_log_file calls the log file holds
\* what it held before the first call followed by one block per call, in
\* call order (banner line, timestamp and message line, empty line); so each
\* call adds exactly its block at the end and changes nothing before it.
C13_LogIsAppendOnly ==
  /\ \E prior \in LoggerPriors : log_file = prior \o Blocks(writes)
  /\ Len(writes) > 0 =>
       /\ EndsWith(log_file, Block(Last(writes)))
       /\ SubSeq(log_file, 1, Len(log_file) - Len(Block(Last(writes))))
            \in {prior \o Blocks(SubSeq(writes, 1, Len(writes) - 1)) : prior \in LoggerPriors}

\* Two writes were made to a file that held text without a final line
\* break; the file holds that text and then the two blocks.
C13_Witness ==
  /\ Len(writes) = 2
  /\ writes[1].headline = <<"W","a","r","n","i","n","g">>
  /\ writes[2].headline = <<"E","r","r","o","r">>
  /\ writes[2].message = <<"G","i","t"," ","P","u","l","l"," ","F","e","h","l","e","r",":","\n","f","a","t","a","l","\n">>
  /\ StartsWith(log_file, <<"x","=","=","=","=","="," ","W","a","r","n","i","n","g"," ","=","=","=","=","="," ","\n">>)
  /\ log_file = <<"x">> \o Block(writes[1]) \o Block(writes[2])

\* C15: sync() never makes more than four invocations; it returns a
\* boolean unless an invoked process never exits; while such a process is
\* in flight sync() has not returned, and from then on nothing happens: no
\* further invocation is made and sync() never returns.
C15_TerminatesUnlessHung ==
  /\ [](Len(calls) <= 4)
  /\ <>(child = "hung" \/ sync_ret \in {Some(TRUE), Some(FALSE)})
  /\ [](child = "hung" => sync_ret = None /\ Len(exits) = Len(calls) - 1)
  /\ [][child = "hung" => (child' = "hung" /\ calls' = calls /\ sync_ret' = None)]_vars

\* git commit was invoked as the third command and never exits: sync() has
\* not returned and push was not invoked.
C15_Witness ==
  /\ child = "hung"
  /\ pc = "commit"
  /\ calls = SubSeq(SyncCommands(commit_message), 1, 3)
  /\ exits = <<Some(0), Some(0)>>
  /\ sync_ret = None

====
